---- MODULE Spec2Model ----
(***************************************************************************)
(* Model of matugen-theme-bridge: the color merge engine                   *)
(* (engine/colorApplier.ts), the palette watcher (watcher/paletteWatcher.ts)*)
(* with its debouncer (utils/debounce.ts) and the coordinator              *)
(* (extension.ts).                                                         *)
(***************************************************************************)
EXTENDS Integers, Sequences, FiniteSets, Bags, TLC

\* ------------------------------------------------------------------------
\* Bounds of the model
\* ------------------------------------------------------------------------

\* Longest sequence of merge-engine calls explored by MergeSpec.
MaxOps == 2

\* The clock stops advancing at MaxClock.
MaxClock == 2

\* Timers pending at once in the host's queue.
MaxTimers == 2

\* File-system watchers alive at once in the host.
MaxWatchers == 2

\* config.update calls in flight at once.
MaxInflight == 1

\* The longest debounce delay, in clock ticks.
MaxDelay == 2

\* The calls of one burst are counted up to MaxBurst.
MaxBurst == 2

\* Entries of a palette file explored by ReaderSpec.
MaxEntries == 2

\* config.update calls in flight at once when commands and configuration
\* changes are handled (CoordSpec).
MaxOverlap == 2

\* ------------------------------------------------------------------------
\* Universe of keys and values of workbench.colorCustomizations
\* ------------------------------------------------------------------------

\* types.ts: the reserved key holding the ManagedMeta record.
MANAGED_KEY == "__matugenBridge"

\* Color tokens a palette may define.
Tokens == {"a.b", "c.d"}

\* A key of the shared configuration that no palette of the model defines.
UserKeys == {"u.v"}

Keys == Tokens \cup UserKeys

AllKeys == Keys \cup {MANAGED_KEY}

HexValues == {"#000", "#fff"}

\* JSON values of the shared configuration object, all of one record shape so
\* that any two of them can be compared.  kind "absent" is a missing key.
Absent == [kind |-> "absent", str |-> "", keys |-> <<>>, appliedAt |-> 0]

Str(s) == [kind |-> "string", str |-> s, keys |-> <<>>, appliedAt |-> 0]

\* A well-formed ManagedMeta record {keys, appliedAt}.
Meta(ks, t) == [kind |-> "meta", str |-> "", keys |-> ks, appliedAt |-> t]

\* Malformed values under the reserved key: an object without `keys`, and an
\* object whose `keys` is a number.
MetaNoKeys == [kind |-> "noKeys", str |-> "", keys |-> <<>>, appliedAt |-> 0]

MetaKeysNumber == [kind |-> "keysNumber", str |-> "", keys |-> <<>>, appliedAt |-> 0]

Range(s) == {s[i] : i \in 1..Len(s)}

\* Sequences over S without repetition.
DistinctSeqs(S) == {s \in UNION {[1..n -> S] : n \in 0..Cardinality(S)} :
                      \A i, j \in 1..Len(s) : i # j => s[i] # s[j]}

\* ColorMap: an insertion-ordered object, a sequence of <<token, hex>> pairs
\* with distinct tokens.
ColorMaps == {cm \in UNION {[1..n -> Tokens \X HexValues] : n \in 0..Cardinality(Tokens)} :
                \A i, j \in 1..Len(cm) : i # j => cm[i][1] # cm[j][1]}

\* Object.keys(newColors)
ObjectKeys(cm) == [i \in 1..Len(cm) |-> cm[i][1]]

\* newColors[token], for a token the map defines
Lookup(cm, k) == cm[CHOOSE i \in 1..Len(cm) : cm[i][1] = k][2]

\* ------------------------------------------------------------------------
\* State
\* ------------------------------------------------------------------------
VARIABLES
  config,    \* workbench.colorCustomizations: AllKeys -> value (Absent = no key)
  clock,     \* source of new Date(): advances with every record built
  outcome,   \* the last merge-engine call and how it ended, see Ended
  config0,   \* history: the shared configuration before the first call
  pre,       \* history: the shared configuration before the last completed call
  trace,     \* history: the completed calls, oldest first
  touched,   \* history: keys listed in a ManagedMeta.keys read by a call, or
             \*          defined by an applied palette
  settings,  \* matugenBridge.*: [enabled, debounceMs, palettePath (resolved)]
  files,     \* the file system: path -> content
  inflight,  \* config.update calls issued and not yet settled, oldest first
  report,    \* the message the last step showed the user: "warning", "error",
             \*   "status", or "none" when it showed nothing
  live,      \* host: FileSystemWatcher id -> watched path (NoPath = disposed)
  listeners, \* host: registered event listeners, <<watcher id, event kind>>
  timers,    \* host: setTimeout queue, the bag of pending timers
  debouncedCallback, \* PaletteWatcher.debouncedCallback: a debounce() closure
  fsWatcher,         \* PaletteWatcher.fsWatcher: a watcher id, 0 = undefined
  disposables,       \* PaletteWatcher.disposables
  currentPath,       \* PaletteWatcher.currentPath
  lastEvent, \* history: "delete" when the last step delivered a delete
             \*   notification to handleDelete, "recreate" when it delivered
             \*   a create notification right after that, "other" otherwise
  lastRun,   \* history: the invocation of onChange the last step made, if any
  activation,  \* activate(): "none" before it runs, "awaiting" while it awaits
               \*   the startup applyPalette, "done" once it has returned
  resolvedPath, \* activate's `palettePath`: resolvePalettePath(getCustomPath())
  changed,     \* the settings named by a configuration-change event that the
               \*   host has not delivered yet
  lastApply,   \* history: what the applyPalette call of the last step did
  lastTrigger, \* history: what called applyPalette in the last step
  result,      \* the PaletteReadResult the last readPalette call returned
  status       \* what the last getManagedStatus call returned

mergeVars == <<config, clock, outcome, config0, pre, trace, touched>>

storeVars == <<settings, files, inflight>>

watcherVars == <<live, listeners, timers, debouncedCallback, fsWatcher,
                 disposables, currentPath>>

historyVars == <<lastEvent, lastRun, lastApply, lastTrigger>>

coordVars == <<activation, resolvedPath, changed>>

replyVars == <<result, status>>

vars == <<mergeVars, storeVars, report, watcherVars, historyVars, coordVars,
          replyVars>>

\* ------------------------------------------------------------------------
\* Color merge engine (engine/colorApplier.ts)
\* ------------------------------------------------------------------------

\* `appliedAt: null`
Null == -1

\* No getManagedStatus call in the last step.
NoStatus == [called |-> FALSE, threw |-> FALSE, count |-> 0, appliedAt |-> Null]

\* How a call of the merge engine ended: op is "apply", "clear" or "status";
\* end is "ok", "threw" (a fault raised by the function's own code) or
\* "rejected" (config.update failed); empty: applyColors got an empty map.
Ended(op, end, empty) == [op |-> op, end |-> end, empty |-> empty]

NoOutcome == Ended("none", "none", FALSE)

\* `meta?.keys ?? []`: the owned-key list recovered from the stored value.
\* A missing value, a string and an object without `keys` all give [].
PreviouslyManaged(meta) ==
  IF meta.kind = "meta" THEN meta.keys ELSE <<>>

\* `for (const key of previouslyManaged)` raises a TypeError when `keys` is
\* not iterable; nothing has been written at that point.
ApplyThrows(current) == current[MANAGED_KEY].kind = "keysNumber"

\* Mutant of DeleteOwned: an overlay-only merge that strips nothing.
DeleteOwnedNone(obj, owned) == obj

\* `for (const key of previouslyManaged) delete next[key]`
DeleteOwned(obj, owned) ==
  [k \in AllKeys |-> IF k \in Range(owned) THEN Absent ELSE obj[k]]

\* `for (const [token, hex] of Object.entries(newColors)) next[token] = hex`
MergeColors(obj, newColors) ==
  [k \in AllKeys |-> IF k \in Range(ObjectKeys(newColors))
                        THEN Str(Lookup(newColors, k))
                        ELSE obj[k]]

\* Mutant of ApplyNext: `next` starts as an empty object, not as a copy.
ApplyNextFromEmpty(current, newColors, now) ==
  LET empty  == [k \in AllKeys |-> Absent]
      merged == MergeColors(empty, newColors)
  IN  [merged EXCEPT ![MANAGED_KEY] = Meta(ObjectKeys(newColors), now)]

\* Mutant of ApplyNext: the palette is merged before the owned keys are
\* stripped.
ApplyNextMergeFirst(current, newColors, now) ==
  LET merged   == MergeColors(current, newColors)
      stripped == DeleteOwned(merged, PreviouslyManaged(current[MANAGED_KEY]))
  IN  [stripped EXCEPT ![MANAGED_KEY] = Meta(ObjectKeys(newColors), now)]

\* Mutant of ApplyNext: the record keeps the previous keys list.
ApplyNextStaleRecord(current, newColors, now) ==
  LET stripped == DeleteOwned(current, PreviouslyManaged(current[MANAGED_KEY]))
      merged   == MergeColors(stripped, newColors)
  IN  [merged EXCEPT ![MANAGED_KEY] =
                       Meta(PreviouslyManaged(current[MANAGED_KEY]), now)]

\* The object applyColors hands to config.update: a copy of `current` without
\* the previously-owned keys and the old record, the palette merged on top,
\* and a fresh ManagedMeta record.
ApplyNext(current, newColors, now) ==
  LET stripped == DeleteOwned(current, PreviouslyManaged(current[MANAGED_KEY]))
      noMeta   == [stripped EXCEPT ![MANAGED_KEY] = Absent]
      merged   == MergeColors(noMeta, newColors)
  IN  [merged EXCEPT ![MANAGED_KEY] = Meta(ObjectKeys(newColors), now)]

\* Mutant of ClearKind: the `meta.keys.length === 0` test is missing.
ClearKindNoEmptyTest(current) ==
  LET meta == current[MANAGED_KEY]
  IN  CASE meta.kind = "absent" -> "noop"
        [] meta.kind = "meta" -> "update"
        [] OTHER -> "throws"

\* What clearColors does on `current`:
\*   "noop"   `!meta || meta.keys.length === 0`: returns without an update
\*   "throws" `meta.keys.length` on a value without `keys`, or the for-of over
\*            a `keys` that is not iterable
\*   "update" deletes the owned keys and the record, then calls config.update
ClearKind(current) ==
  LET meta == current[MANAGED_KEY]
  IN  CASE meta.kind = "absent" -> "noop"
        [] meta.kind = "meta" /\ Len(meta.keys) = 0 -> "noop"
        [] meta.kind = "meta" -> "update"
        [] OTHER -> "throws"

\* Mutant of ClearNext: only the record is removed.
ClearNextMetaOnly(current) == [current EXCEPT ![MANAGED_KEY] = Absent]

\* The object clearColors hands to config.update.
ClearNext(current) ==
  LET stripped == DeleteOwned(current, current[MANAGED_KEY].keys)
  IN  [stripped EXCEPT ![MANAGED_KEY] = Absent]

\* getManagedStatus() on `current`: `meta?.keys.length ?? 0` raises a
\* TypeError when the stored value is not undefined and has no `keys`;
\* `meta?.appliedAt ?? null`.
GetManagedStatus(current) ==
  LET meta == current[MANAGED_KEY]
  IN  CASE meta.kind = "absent" ->
             [called |-> TRUE, threw |-> FALSE, count |-> 0, appliedAt |-> Null]
        [] meta.kind = "meta" ->
             [called |-> TRUE, threw |-> FALSE, count |-> Len(meta.keys),
              appliedAt |-> meta.appliedAt]
        [] meta.kind = "keysNumber" ->
             [called |-> TRUE, threw |-> FALSE, count |-> 0, appliedAt |-> Null]
        [] OTHER ->
             [called |-> TRUE, threw |-> TRUE, count |-> 0, appliedAt |-> Null]

\* new Date(): the clock after a record was stamped.
Tock(c) == IF c < MaxClock THEN c + 1 ELSE c

\* ------------------------------------------------------------------------
\* Palette reader (engine/paletteReader.ts)
\* ------------------------------------------------------------------------

Paths == {"p1", "p2"}

\* JSON values of a palette file entry.
JStr(s) == [type |-> "string", str |-> s]

JObject == [type |-> "object", str |-> ""]

\* File contents: no file, or a JSON text that parses to an object with the
\* given entries (other kinds: "unreadable", "malformed", "nonObject").
MissingFile == [kind |-> "missing", entries |-> <<>>]

JsonObject(es) == [kind |-> "object", entries |-> es]

PaletteA == JsonObject(<< <<"a.b", JStr("#000")>> >>)

PaletteB == JsonObject(<< <<"_meta", JObject>>,
                          <<"c.d", JStr("#fff")>>,
                          <<"bad.token", JStr("notacolor")>> >>)

\* What the model writes to each path.
Written == [p \in Paths |-> IF p = "p1" THEN {PaletteA, PaletteB} ELSE {PaletteA}]

\* The characters of the strings the model uses.
Chars(s) ==
  CASE s = "a.b"       -> <<"a", ".", "b">>
    [] s = "c.d"       -> <<"c", ".", "d">>
    [] s = "u.v"       -> <<"u", ".", "v">>
    [] s = "bad.token" -> <<"b", "a", "d", ".", "t", "o", "k", "e", "n">>
    [] s = "_meta"     -> <<"_", "m", "e", "t", "a">>
    [] s = "nodothere" -> <<"n", "o", "d", "o", "t", "h", "e", "r", "e">>
    [] s = "__matugenBridge" -> <<"_", "_", "m", "a", "t", "u", "g", "e", "n",
                                  "B", "r", "i", "d", "g", "e">>
    [] s = "#000"      -> <<"#", "0", "0", "0">>
    [] s = "#fff"      -> <<"#", "f", "f", "f">>
    [] s = "#FFFF"     -> <<"#", "F", "F", "F", "F">>
    [] s = "#12"       -> <<"#", "1", "2">>
    [] s = "_x.y"      -> <<"_", "x", ".", "y">>
    [] s = "#12ab56"   -> <<"#", "1", "2", "a", "b", "5", "6">>
    [] s = "#12AB56ff" -> <<"#", "1", "2", "A", "B", "5", "6", "f", "f">>
    [] s = "#12345"    -> <<"#", "1", "2", "3", "4", "5">>
    [] s = "#ggg"      -> <<"#", "g", "g", "g">>
    [] s = "notacolor" -> <<"n", "o", "t", "a", "c", "o", "l", "o", "r">>
    [] OTHER           -> <<>>

HexDigits == {"0", "1", "2", "3", "4", "5", "6", "7", "8", "9",
              "a", "b", "c", "d", "e", "f", "A", "B", "C", "D", "E", "F"}

\* Mutant of IsColorToken: the leading "_" is not checked.
IsColorTokenDotOnly(key) == \E i \in 1..Len(Chars(key)) : Chars(key)[i] = "."

\* HEX_RE.test(v)
IsHex(v) ==
  LET cs == Chars(v)
  IN  /\ Len(cs) \in {4, 5, 7, 9}
      /\ cs[1] = "#"
      /\ \A i \in 2..Len(cs) : cs[i] \in HexDigits

\* Mutant of IsColorToken: every key of the file is taken as a token.
IsColorTokenAny(key) == TRUE

\* !key.startsWith("_") && key.includes(".")
IsColorToken(key) ==
  LET cs == Chars(key)
  IN  /\ ~(Len(cs) >= 1 /\ cs[1] = "_")
      /\ \E i \in 1..Len(cs) : cs[i] = "."

\* The loop of readPalette over Object.entries(parsed): the valid tokens, in
\* the order of the file.
RECURSIVE ExtractColors(_)
ExtractColors(es) ==
  IF es = <<>> THEN <<>>
  ELSE LET e    == Head(es)
           rest == ExtractColors(Tail(es))
       IN  IF /\ IsColorToken(e[1])
              /\ e[2].type = "string"
              /\ IsHex(e[2].str)
             THEN <<<<e[1], e[2].str>>>> \o rest
             ELSE rest

\* readPalette(filePath) on the content of the file: a PaletteReadResult.
ReadPalette(content) ==
  CASE content.kind = "missing"    -> [ok |-> FALSE, error |-> "notFound", colors |-> <<>>]
    [] content.kind = "unreadable" -> [ok |-> FALSE, error |-> "readError", colors |-> <<>>]
    [] content.kind = "malformed"  -> [ok |-> FALSE, error |-> "parseError", colors |-> <<>>]
    [] content.kind = "nonObject"  -> [ok |-> FALSE, error |-> "shapeError", colors |-> <<>>]
    [] OTHER ->
         LET colors == ExtractColors(content.entries)
         IN  IF Len(colors) = 0
               THEN [ok |-> FALSE, error |-> "emptyPalette", colors |-> <<>>]
               ELSE [ok |-> TRUE, error |-> "", colors |-> colors]

\* fs.existsSync / readFileSync of a path; the empty path names no file.
FileAt(fs, path) == IF path \in Paths THEN fs[path] ELSE MissingFile

\* ------------------------------------------------------------------------
\* Debouncer (utils/debounce.ts) over the host's timer queue
\* ------------------------------------------------------------------------

\* Values of matugenBridge.debounceMs, in clock ticks.
DebounceValues == {0, MaxDelay}

Min(a, b) == IF a < b THEN a ELSE b

\* A pending setTimeout of a debounce() closure:
\*   cur       it belongs to the closure the watcher holds now (otherwise to
\*             a closure the watcher has replaced)
\*   tracked   the closure's `timer` variable holds its id
\*   remaining ticks until it is due
TimerRecords == [cur : BOOLEAN, tracked : BOOLEAN, remaining : 0..MaxDelay]

\* The host's timer queue: the bag of pending timers.
EmptyQueue == EmptyBag

QueueSize(tq) == BagCardinality(tq)

\* The timers of the queue that belong (cur = TRUE) or do not belong to the
\* closure the watcher holds now.
TimersOf(tq, cur) == [r \in {x \in DOMAIN tq : x.cur = cur} |-> tq[r]]

\* Pending timers of the watcher's current closure.
CurPending(tq) == BagCardinality(TimersOf(tq, TRUE))

\* Pending timers of closures the watcher has replaced.
StalePending(tq) == BagCardinality(TimersOf(tq, FALSE))

\* setTimeout(callback, delayMs) by the current closure, which keeps the id.
SetTimeout(tq, delayMs) ==
  tq (+) SetToBag({[cur |-> TRUE, tracked |-> TRUE, remaining |-> delayMs]})

\* clearTimeout(timer) by the current closure.
ClearTimeout(tq) ==
  [r \in {x \in DOMAIN tq : ~(x.cur /\ x.tracked)} |-> tq[r]]

\* The current closure's `timer` variable no longer holds the id of a pending
\* timer (it was reassigned or reset), the timer stays in the queue.
Untrack(tq) ==
  BagOfAll(LAMBDA r : IF r.cur THEN [r EXCEPT !.tracked = FALSE] ELSE r, tq)

\* The watcher replaces its closure: the pending timers of the old one stay
\* in the queue.
Orphan(tq) ==
  BagOfAll(LAMBDA r : [r EXCEPT !.cur = FALSE, !.tracked = FALSE], tq)

\* One tick passes.
Elapse(tq) ==
  BagOfAll(LAMBDA r : [r EXCEPT !.remaining = IF @ > 0 THEN @ - 1 ELSE 0], tq)

\* The closure debounce(fn, delayMs) returns: the captured delayMs and whether
\* `timer` is defined; history: calls and runs of the burst in progress, and
\* the ticks since the last call (counted up to delay).
NewDebounced(delayMs) ==
  [delay |-> delayMs, timer |-> FALSE, calls |-> 0, runs |-> 0, quiet |-> 0]

\* The closure's history after a call: a call that finds no timer of the
\* closure pending opens a burst.
Called(c, tq) ==
  [c EXCEPT !.timer = TRUE,
            !.calls = IF CurPending(tq) = 0 THEN 1 ELSE Min(c.calls + 1, MaxBurst),
            !.runs  = IF CurPending(tq) = 0 THEN 0 ELSE c.runs,
            !.quiet = 0]

\* Mutant of DebouncedCall: the pending timer is not cleared.
DebouncedCallNoClear(c, tq) ==
  [timers |-> SetTimeout(Untrack(tq), c.delay), closure |-> Called(c, tq)]

\* The callback of a pending timer r of the current closure runs:
\* `timer = undefined; fn(...args)`.
Ran(c) == [c EXCEPT !.timer = FALSE, !.runs = Min(c.runs + 1, 2)]

\* Mutant of DebouncedCall: with a delay of 0 the callback is run inside the
\* call and no timer is set.
DebouncedCallSyncZero(c, tq) ==
  LET cleared == IF c.timer THEN ClearTimeout(tq) ELSE tq
  IN  IF c.delay = 0
        THEN [timers |-> cleared, closure |-> Ran(Called(c, tq))]
        ELSE [timers |-> SetTimeout(cleared, c.delay), closure |-> Called(c, tq)]

\* One call of the closure: `if (timer !== undefined) clearTimeout(timer)`,
\* then `timer = setTimeout(..., delayMs)`.
DebouncedCall(c, tq) ==
  LET cleared == IF c.timer THEN ClearTimeout(tq) ELSE tq
  IN  [timers |-> SetTimeout(cleared, c.delay), closure |-> Called(c, tq)]

\* Whether the queue has room for the timer of one more call.
CanCall(c, tq) == QueueSize(tq) < MaxTimers \/ (c.timer /\ CurPending(tq) = 1)

\* ------------------------------------------------------------------------
\* Palette watcher (watcher/paletteWatcher.ts) over the host's watchers
\* ------------------------------------------------------------------------

NoPath == ""

WatcherIds == 1..MaxWatchers

EventKinds == {"create", "change", "delete"}

\* Mutant of DisposeAll: stop() forgets the disposables without disposing.
DisposeNone(host, ds) == host

\* `for (const d of this.disposables) d.dispose()`: host = [live, listeners];
\* an element of ds is <<"listener", id, kind>> or <<"watcher", id, "">>.
RECURSIVE DisposeAll(_, _)
DisposeAll(host, ds) ==
  IF ds = <<>> THEN host
  ELSE LET d == Head(ds)
           h == IF d[1] = "listener"
                  THEN [host EXCEPT !.listeners = @ \ {<<d[2], d[3]>>}]
                  ELSE [live      |-> [host.live EXCEPT ![d[2]] = NoPath],
                        listeners |-> {l \in host.listeners : l[1] # d[2]}]
       IN  DisposeAll(h, Tail(ds))

HasFreeWatcher(lv) == \E w \in WatcherIds : lv[w] = NoPath

\* createFileSystemWatcher: the host's next watcher id.
FreeWatcher(lv) == CHOOSE w \in WatcherIds :
                     lv[w] = NoPath /\ \A x \in WatcherIds : lv[x] = NoPath => w <= x

\* Listeners the host calls for an event of `kind` on `path`.
Matching(lv, ls, path, kind) == {l \in ls : lv[l[1]] = path /\ l[2] = kind}

\* No invocation of onChange in the last step.
NoRun == [ran |-> FALSE, stale |-> FALSE, early |-> FALSE, stopped |-> FALSE]

\* No applyPalette call in the last step.
NoApply == [ran |-> FALSE, path |-> NoPath, silent |-> FALSE, read |-> "none",
            end |-> "none"]

\* No readPalette call yet.
NoResult == [ok |-> FALSE, error |-> "none", colors |-> <<>>]

\* The coordinator has activated and no call is in progress.
Idle ==
  /\ activation = "done"
  /\ resolvedPath = NoPath
  /\ changed = {}
  /\ lastApply = NoApply
  /\ lastTrigger = "none"
  /\ result = NoResult
  /\ status = NoStatus

\* new PaletteWatcher(onChange): the first debounce(..., 0) closure is replaced
\* at once by buildDebounced(), nothing is watched.
Constructed ==
  /\ live = [w \in WatcherIds |-> NoPath]
  /\ listeners = {}
  /\ timers = EmptyQueue
  /\ debouncedCallback = NewDebounced(settings.debounceMs)
  /\ fsWatcher = 0
  /\ disposables = <<>>
  /\ currentPath = NoPath
  /\ lastEvent = "other"
  /\ lastRun = NoRun

\* ------------------------------------------------------------------------
\* Initial shared configuration: any object the user's settings may hold
\* ------------------------------------------------------------------------

InitMetas == {Absent, MetaNoKeys, MetaKeysNumber, Str("x")}
               \cup {Meta(ks, 0) : ks \in DistinctSeqs(Keys)}

InitConfigs ==
  {c \in [AllKeys -> {Absent} \cup {Str(h) : h \in HexValues} \cup InitMetas] :
     /\ c[MANAGED_KEY] \in InitMetas
     /\ \A k \in Tokens : c[k] \in {Absent} \cup {Str(h) : h \in HexValues}
     /\ \A k \in UserKeys : c[k] = Str("#000")}

MergeInit ==
  /\ config \in InitConfigs
  /\ clock = 1
  /\ outcome = NoOutcome
  /\ config0 = config
  /\ pre = config
  /\ trace = <<>>
  /\ touched = {}
  /\ settings \in {[enabled |-> TRUE, debounceMs |-> MaxDelay, palettePath |-> "p1"]}
  /\ files = [p \in Paths |-> MissingFile]
  /\ inflight = <<>>
  /\ report = "none"
  /\ Constructed
  /\ Idle

\* ------------------------------------------------------------------------
\* Awaited merge-engine calls, one after the other
\* ------------------------------------------------------------------------

\* await applyColors(newColors); updateOk: whether config.update resolves.
CallApplyColors(newColors, updateOk) ==
  /\ Len(trace) < MaxOps
  /\ IF ApplyThrows(config) \/ ~updateOk
       THEN /\ outcome' = Ended("apply",
                                IF ApplyThrows(config) THEN "threw" ELSE "rejected",
                                newColors = <<>>)
            /\ UNCHANGED <<config, clock, config0, pre, trace, touched>>
       ELSE /\ config' = ApplyNext(config, newColors, clock)
            /\ clock' = Tock(clock)
            /\ outcome' = Ended("apply", "ok", newColors = <<>>)
            /\ pre' = config
            /\ trace' = Append(trace, [op |-> "apply", colors |-> newColors,
                                       updates |-> 1])
            /\ touched' = touched \cup Range(PreviouslyManaged(config[MANAGED_KEY]))
                                  \cup Range(ObjectKeys(newColors))
            /\ UNCHANGED config0
  /\ status' = NoStatus
  /\ UNCHANGED <<storeVars, report, watcherVars, historyVars, coordVars, result>>

\* await clearColors(); updateOk: whether config.update resolves.
CallClearColors(updateOk) ==
  /\ Len(trace) < MaxOps
  /\ LET kind == ClearKind(config)
     IN  IF kind = "throws" \/ (kind = "update" /\ ~updateOk)
           THEN /\ outcome' = Ended("clear",
                                    IF kind = "throws" THEN "threw" ELSE "rejected",
                                    FALSE)
                /\ UNCHANGED <<config, clock, config0, pre, trace, touched>>
           ELSE /\ config' = IF kind = "update" THEN ClearNext(config) ELSE config
                /\ outcome' = Ended("clear", "ok", FALSE)
                /\ pre' = config
                /\ trace' = Append(trace, [op |-> "clear", colors |-> <<>>,
                                           updates |-> IF kind = "update" THEN 1 ELSE 0])
                /\ touched' = touched \cup Range(PreviouslyManaged(config[MANAGED_KEY]))
                /\ UNCHANGED <<clock, config0>>
  /\ status' = NoStatus
  /\ UNCHANGED <<storeVars, report, watcherVars, historyVars, coordVars, result>>

\* getManagedStatus()
CallGetManagedStatus ==
  /\ status' = GetManagedStatus(config)
  /\ outcome' = Ended("status", IF status'.threw THEN "threw" ELSE "ok", FALSE)
  /\ UNCHANGED <<config, clock, config0, pre, trace, touched, storeVars, report,
                 watcherVars, historyVars, coordVars, result>>

MergeNext ==
  \/ \E cm \in ColorMaps, ok \in BOOLEAN : CallApplyColors(cm, ok)
  \/ \E ok \in BOOLEAN : CallClearColors(ok)
  \/ CallGetManagedStatus

MergeSpec == MergeInit /\ [][MergeNext]_vars

\* ------------------------------------------------------------------------
\* The watcher with the coordinator's callback (extension.ts): Spec
\* ------------------------------------------------------------------------

\* The user's settings when the extension activates: a color of their own and
\* one the extension applied earlier.
SpecInitConfigs ==
  {c \in InitConfigs :
     /\ c["u.v"] = Str("#000") /\ c["a.b"] = Absent /\ c["c.d"] = Str("#000")
     /\ c[MANAGED_KEY] = Meta(<<"c.d">>, 0)}

Init ==
  /\ config \in SpecInitConfigs
  /\ clock = MaxClock
  /\ outcome = NoOutcome
  /\ config0 = config
  /\ pre = config
  /\ trace = <<>>
  /\ touched = {}
  /\ settings \in [enabled : {TRUE}, debounceMs : DebounceValues, palettePath : {"p1"}]
  /\ files = [p \in Paths |-> MissingFile]
  /\ inflight = <<>>
  /\ report = "none"
  /\ Constructed
  /\ Idle

mergeHistory == <<outcome, config0, pre, trace, touched>>

\* Mutant of ApplyPalette: a failed read is applied as an empty palette.
ApplyPaletteBlanking(path, silent) ==
  LET did(read, end) == [ran |-> TRUE, path |-> path, silent |-> silent,
                         read |-> read, end |-> end]
      res == ReadPalette(FileAt(files, path))
  IN  IF ~settings.enabled
        THEN /\ report' = "none"
             /\ lastApply' = did("none", "disabled")
             /\ UNCHANGED <<clock, inflight>>
        ELSE IF ApplyThrows(config)
          THEN /\ report' = "error"
               /\ lastApply' = did(IF res.ok THEN "ok" ELSE res.error, "threw")
               /\ UNCHANGED <<clock, inflight>>
          ELSE /\ inflight' = Append(inflight,
                                [op     |-> "apply",
                                 next   |-> ApplyNext(config, res.colors, clock),
                                 silent |-> silent])
               /\ clock' = Tock(clock)
               /\ report' = "none"
               /\ lastApply' = did(IF res.ok THEN "ok" ELSE res.error, "issued")

\* Mutant of ApplyPalette: the `enabled` setting is not consulted.
ApplyPaletteAlways(path, silent) ==
  LET did(read, end) == [ran |-> TRUE, path |-> path, silent |-> silent,
                         read |-> read, end |-> end]
      res == ReadPalette(FileAt(files, path))
  IN  IF ~res.ok
        THEN /\ report' = IF silent THEN "none" ELSE "warning"
             /\ lastApply' = did(res.error, "readFailed")
             /\ UNCHANGED <<clock, inflight>>
        ELSE IF ApplyThrows(config)
          THEN /\ report' = "error"
               /\ lastApply' = did("ok", "threw")
               /\ UNCHANGED <<clock, inflight>>
          ELSE /\ inflight' = Append(inflight,
                                [op     |-> "apply",
                                 next   |-> ApplyNext(config, res.colors, clock),
                                 silent |-> silent])
               /\ clock' = Tock(clock)
               /\ report' = "none"
               /\ lastApply' = did("ok", "issued")

\* Mutant of UpdateSettle: a failed write is not reported.
UpdateSettleUnreported(ok) ==
  /\ inflight # <<>>
  /\ inflight' = Tail(inflight)
  /\ LET u == Head(inflight)
     IN  IF ok
           THEN /\ config' = u.next
                /\ report' = CASE u.op = "clear" -> "info"
                                [] u.silent     -> "none"
                                [] OTHER        -> "status"
           ELSE /\ report' = "none"
                /\ UNCHANGED config
  /\ activation' = IF activation = "awaiting" THEN "done" ELSE activation
  /\ lastEvent' = "other"
  /\ lastRun' = NoRun
  /\ lastApply' = NoApply
  /\ lastTrigger' = "none"
  /\ UNCHANGED <<clock, mergeHistory, settings, files, watcherVars, resolvedPath,
                 changed, replyVars>>

\* applyPalette(palettePath, silent) up to its first await: the enabled check,
\* readPalette, and applyColors up to the config.update call it awaits.
ApplyPalette(path, silent) ==
  LET did(read, end) == [ran |-> TRUE, path |-> path, silent |-> silent,
                         read |-> read, end |-> end]
  IN
  IF ~settings.enabled
    THEN /\ report' = "none"
         /\ lastApply' = did("none", "disabled")
         /\ UNCHANGED <<clock, inflight>>
    ELSE LET res == ReadPalette(FileAt(files, path))
         IN  IF ~res.ok
               THEN /\ report' = IF silent THEN "none" ELSE "warning"
                    /\ lastApply' = did(res.error, "readFailed")
                    /\ UNCHANGED <<clock, inflight>>
               ELSE IF ApplyThrows(config)
                 THEN /\ report' = "error"
                      /\ lastApply' = did("ok", "threw")
                      /\ UNCHANGED <<clock, inflight>>
                 ELSE /\ inflight' = Append(inflight,
                                       [op     |-> "apply",
                                        next   |-> ApplyNext(config, res.colors, clock),
                                        silent |-> silent])
                      /\ clock' = Tock(clock)
                      /\ report' = "none"
                      /\ lastApply' = did("ok", "issued")

\* The config.update call at the head of the queue settles: the store takes
\* the object, or the write fails and applyPalette's catch reports it.
UpdateSettle(ok) ==
  /\ inflight # <<>>
  /\ inflight' = Tail(inflight)
  /\ LET u == Head(inflight)
     IN  IF ok
           THEN /\ config' = u.next
                /\ report' = CASE u.op = "clear" -> "info"
                                [] u.silent     -> "none"
                                [] OTHER        -> "status"
           ELSE /\ report' = IF u.op = "clear" THEN "rejected" ELSE "error"
                /\ UNCHANGED config
  /\ activation' = IF activation = "awaiting" THEN "done" ELSE activation
  /\ lastEvent' = "other"
  /\ lastRun' = NoRun
  /\ lastApply' = NoApply
  /\ lastTrigger' = "none"
  /\ UNCHANGED <<clock, mergeHistory, settings, files, watcherVars, resolvedPath,
                 changed,
                 replyVars>>

\* The user edits matugenBridge.debounceMs.
SetConfiguration(s) ==
  /\ s # settings
  /\ settings' = s
  /\ lastEvent' = "other"
  /\ lastRun' = NoRun
  /\ report' = "none"
  /\ UNCHANGED <<mergeVars, files, inflight, watcherVars>>
  /\ lastApply' = NoApply
  /\ lastTrigger' = "none"
  /\ UNCHANGED <<coordVars, replyVars>>

\* PaletteWatcher.stop() on the host: what is left of [live, listeners].
StopHost == DisposeAll([live |-> live, listeners |-> listeners], disposables)

\* The body of PaletteWatcher.start(palettePath): stop(), a new closure, a
\* new host watcher with its three listeners.
WatcherStart(path) ==
  LET host == StopHost
  IN  /\ HasFreeWatcher(host.live)
      /\ LET w == FreeWatcher(host.live)
         IN  /\ currentPath' = path
             /\ debouncedCallback' = NewDebounced(settings.debounceMs)
             /\ timers' = Orphan(timers)
             /\ live' = [host.live EXCEPT ![w] = path]
             /\ listeners' = host.listeners \cup {<<w, k>> : k \in EventKinds}
             /\ disposables' = << <<"listener", w, "create">>,
                                  <<"listener", w, "change">>,
                                  <<"listener", w, "delete">>,
                                  <<"watcher", w, "">> >>
             /\ fsWatcher' = w

\* PaletteWatcher.start(palettePath)
Start(palettePath) ==
  /\ WatcherStart(palettePath)
  /\ lastEvent' = "other"
  /\ lastRun' = NoRun
  /\ report' = "none"
  /\ UNCHANGED <<mergeVars, storeVars>>
  /\ lastApply' = NoApply
  /\ lastTrigger' = "none"
  /\ UNCHANGED <<coordVars, replyVars>>

\* PaletteWatcher.stop()
Stop ==
  /\ live' = StopHost.live
  /\ listeners' = StopHost.listeners
  /\ disposables' = <<>>
  /\ fsWatcher' = 0
  /\ lastEvent' = "other"
  /\ lastRun' = NoRun
  /\ report' = "none"
  /\ UNCHANGED <<mergeVars, storeVars, timers, debouncedCallback, currentPath>>
  /\ lastApply' = NoApply
  /\ lastTrigger' = "none"
  /\ UNCHANGED <<coordVars, replyVars>>

\* PaletteWatcher.dispose()
Dispose ==
  /\ live' = StopHost.live
  /\ listeners' = StopHost.listeners
  /\ disposables' = <<>>
  /\ fsWatcher' = 0
  /\ lastEvent' = "other"
  /\ lastRun' = NoRun
  /\ report' = "none"
  /\ UNCHANGED <<mergeVars, storeVars, timers, debouncedCallback, currentPath>>
  /\ lastApply' = NoApply
  /\ lastTrigger' = "none"
  /\ UNCHANGED <<coordVars, replyVars>>

\* Mutant of HandleDelete: a delete cancels the pending apply.
HandleDeleteCancels(c, tq) ==
  [timers |-> ClearTimeout(tq), closure |-> [c EXCEPT !.timer = FALSE]]

\* PaletteWatcher.handleDelete: logs, and changes nothing.
HandleDelete(c, tq) == [timers |-> tq, closure |-> c]

\* PaletteWatcher.handleEvent: this.debouncedCallback()
HandleEvent(c, tq) == DebouncedCall(c, tq)

\* The palette file at `path` is written; the host notifies a create (the
\* file did not exist) or a change.
FileWrite(path, content) ==
  LET kind == IF files[path] = MissingFile THEN "create" ELSE "change"
  IN  /\ files' = [files EXCEPT ![path] = content]
      /\ IF Matching(live, listeners, path, kind) # {}
           THEN /\ CanCall(debouncedCallback, timers)
                /\ timers' = HandleEvent(debouncedCallback, timers).timers
                /\ debouncedCallback' = HandleEvent(debouncedCallback, timers).closure
                /\ lastEvent' = IF kind = "create" /\ lastEvent = "delete"
                                  THEN "recreate" ELSE "other"
           ELSE /\ lastEvent' = "other"
                /\ UNCHANGED <<timers, debouncedCallback>>
      /\ lastRun' = NoRun
      /\ report' = "none"
      /\ UNCHANGED <<mergeVars, settings, inflight, live, listeners,
                     fsWatcher, disposables, currentPath>>
      /\ lastApply' = NoApply
      /\ lastTrigger' = "none"
      /\ UNCHANGED <<coordVars, replyVars>>

\* The palette file at `path` is removed; the host notifies a delete.
FileDelete(path) ==
  /\ files[path] # MissingFile
  /\ files' = [files EXCEPT ![path] = MissingFile]
  /\ IF Matching(live, listeners, path, "delete") # {}
       THEN /\ timers' = HandleDelete(debouncedCallback, timers).timers
            /\ debouncedCallback' = HandleDelete(debouncedCallback, timers).closure
            /\ lastEvent' = "delete"
       ELSE /\ lastEvent' = "other"
            /\ UNCHANGED <<timers, debouncedCallback>>
  /\ lastRun' = NoRun
  /\ report' = "none"
  /\ UNCHANGED <<mergeVars, settings, inflight, live, listeners,
                 fsWatcher, disposables, currentPath>>
  /\ lastApply' = NoApply
  /\ lastTrigger' = "none"
  /\ UNCHANGED <<coordVars, replyVars>>

\* One unit of time passes for every pending timer.
Tick ==
  /\ \E r \in BagToSet(timers) : r.remaining > 0
  /\ timers' = Elapse(timers)
  /\ debouncedCallback' =
       IF CurPending(timers) > 0
         THEN [debouncedCallback EXCEPT !.quiet = Min(@ + 1, debouncedCallback.delay)]
         ELSE debouncedCallback
  /\ lastEvent' = "other"
  /\ lastRun' = NoRun
  /\ report' = "none"
  /\ UNCHANGED <<mergeVars, storeVars, live, listeners, fsWatcher, disposables,
                 currentPath>>
  /\ lastApply' = NoApply
  /\ lastTrigger' = "none"
  /\ UNCHANGED <<coordVars, replyVars>>

\* The host runs the callback of a due timer r: the closure resets its
\* `timer` and calls fn, which calls onChange, the coordinator's
\* `applyPalette(watcher.watchedPath, true)`.
FireTimer(r) ==
  /\ BagIn(r, timers)
  /\ r.remaining = 0
  /\ Len(inflight) < MaxInflight
  /\ LET tq == timers (-) SetToBag({r})
     IN  IF r.cur
           THEN /\ timers' = Untrack(tq)
                /\ debouncedCallback' = Ran(debouncedCallback)
           ELSE /\ timers' = tq
                /\ UNCHANGED debouncedCallback
  /\ lastRun' = [ran     |-> TRUE,
                 stale   |-> ~r.cur,
                 early   |-> r.cur /\ debouncedCallback.quiet < debouncedCallback.delay,
                 stopped |-> fsWatcher = 0]
  /\ ApplyPalette(currentPath, TRUE)
  /\ lastTrigger' = "watcher"
  /\ lastEvent' = "other"
  /\ UNCHANGED <<config, mergeHistory, settings, files, live, listeners,
                 fsWatcher, disposables, currentPath, coordVars, replyVars>>

Next ==
  \/ \E p \in Paths : Start(p)
  \/ Stop
  \/ Dispose
  \/ \E p \in Paths : \E c \in Written[p] : FileWrite(p, c)
  \/ \E p \in Paths : FileDelete(p)
  \/ Tick
  \/ \E r \in TimerRecords : FireTimer(r)
  \/ \E ok \in BOOLEAN : UpdateSettle(ok)
  \/ \E s \in [enabled : {TRUE}, debounceMs : DebounceValues, palettePath : {"p1"}] :
       SetConfiguration(s)

Spec == Init /\ [][Next]_vars

\* ------------------------------------------------------------------------
\* readPalette on any palette file: ReaderSpec
\* ------------------------------------------------------------------------

JNumber == [type |-> "number", str |-> ""]

EntryKeys == {"a.b", "c.d", "_meta", "_x.y", "nodothere"}

EntryValues == {JStr("#000"), JStr("#FFFF"), JStr("#12ab56"), JStr("#12AB56ff"),
                JStr("#12"), JStr("#12345"), JStr("#ggg"), JStr("notacolor"),
                JObject, JNumber}

\* Object.entries(parsed) of the JSON objects explored: up to MaxEntries
\* entries with distinct keys.
EntryLists ==
  {es \in UNION {[1..n -> EntryKeys \X EntryValues] : n \in 0..MaxEntries} :
     \A i, j \in 1..Len(es) : i # j => es[i][1] # es[j][1]}

\* What the file may hold: nothing, bytes that cannot be read, text that is
\* not JSON, JSON that is not a plain object (null, an array, a number), or a
\* JSON object.
ReaderContents ==
  {MissingFile,
   [kind |-> "unreadable", entries |-> <<>>],
   [kind |-> "malformed", entries |-> <<>>],
   [kind |-> "nonObject", entries |-> <<>>]}
    \cup {JsonObject(es) : es \in EntryLists}

ReaderInit ==
  /\ config \in SpecInitConfigs
  /\ clock = 1
  /\ outcome = NoOutcome
  /\ config0 = config
  /\ pre = config
  /\ trace = <<>>
  /\ touched = {}
  /\ settings \in {[enabled |-> TRUE, debounceMs |-> MaxDelay, palettePath |-> "p1"]}
  /\ files \in {[p \in Paths |-> IF p = "p1" THEN c ELSE MissingFile] :
                  c \in ReaderContents}
  /\ inflight = <<>>
  /\ report = "none"
  /\ Constructed
  /\ Idle

\* readPalette("p1")
CallReadPalette ==
  /\ result' = ReadPalette(FileAt(files, "p1"))
  /\ UNCHANGED <<mergeVars, storeVars, report, watcherVars, historyVars,
                 coordVars, status>>

ReaderNext == CallReadPalette

ReaderSpec == ReaderInit /\ [][ReaderNext]_vars

\* ------------------------------------------------------------------------
\* The coordinator (extension.ts) with its watcher, commands and
\* configuration listener: CoordSpec
\* ------------------------------------------------------------------------

\* The user's settings when the extension activates: a color of their own and
\* one the extension applied earlier, under a record that is well formed or
\* whose `keys` is no list.
CoordInitConfigs ==
  {c \in InitConfigs :
     /\ c["u.v"] = Str("#000") /\ c["a.b"] = Absent /\ c["c.d"] = Str("#000")
     /\ c[MANAGED_KEY] \in {Meta(<<"c.d">>, 0), MetaKeysNumber}}

\* A JSON object without a valid color token.
NoTokens == JsonObject(<< <<"_meta", JObject>>, <<"bad.token", JStr("notacolor")>> >>)

\* What is written to each path: nothing is ever written to "p2".
CoordWritten ==
  [p \in Paths |->
     IF p = "p1"
       THEN {PaletteA, NoTokens,
             [kind |-> "unreadable", entries |-> <<>>],
             [kind |-> "malformed", entries |-> <<>>],
             [kind |-> "nonObject", entries |-> <<>>]}
       ELSE {}]

SettingNames == {"enabled", "debounceMs", "palettePath"}

\* The settings explored: the debounce delay stays 0.
SettingValues == [enabled : BOOLEAN, debounceMs : {0}, palettePath : Paths]

\* The state before activate() is called.
CoordInit ==
  /\ config \in CoordInitConfigs
  /\ clock = MaxClock
  /\ outcome = NoOutcome
  /\ config0 = config
  /\ pre = config
  /\ trace = <<>>
  /\ touched = {}
  /\ settings \in {v \in SettingValues : v.palettePath = "p1"}
  /\ files = [p \in Paths |-> MissingFile]
  /\ inflight = <<>>
  /\ report = "none"
  /\ Constructed
  /\ activation = "none"
  /\ resolvedPath = NoPath
  /\ changed = {}
  /\ lastApply = NoApply
  /\ lastTrigger = "none"
  /\ result = NoResult
  /\ status = NoStatus

\* activate() up to its first await: the path is resolved, the watcher is
\* created and started, and the startup applyPalette is called; the commands
\* and the configuration listener are registered once that call has returned.
Activate ==
  /\ activation = "none"
  /\ resolvedPath' = settings.palettePath
  /\ WatcherStart(settings.palettePath)
  /\ ApplyPalette(settings.palettePath, TRUE)
  /\ lastTrigger' = "startup"
  /\ activation' = IF lastApply'.end = "issued" THEN "awaiting" ELSE "done"
  /\ lastEvent' = "other"
  /\ lastRun' = NoRun
  /\ UNCHANGED <<config, mergeHistory, settings, files, changed, replyVars>>

\* Command matugenBridge.applyNow
CmdApplyNow ==
  /\ activation = "done"
  /\ Len(inflight) < MaxOverlap
  /\ ApplyPalette(settings.palettePath, FALSE)
  /\ lastTrigger' = "applyNow"
  /\ lastEvent' = "other"
  /\ lastRun' = NoRun
  /\ UNCHANGED <<config, mergeHistory, settings, files, watcherVars, coordVars,
                 replyVars>>

\* Command matugenBridge.clearOverrides up to its first await: clearColors
\* returns at once, raises a fault that the command does not catch, or
\* issues its config.update.
CmdClearOverrides ==
  /\ activation = "done"
  /\ Len(inflight) < MaxOverlap
  /\ LET kind == ClearKind(config)
     IN  CASE kind = "noop"   -> report' = "info" /\ UNCHANGED inflight
           [] kind = "throws" -> report' = "rejected" /\ UNCHANGED inflight
           [] OTHER ->
                /\ inflight' = Append(inflight, [op     |-> "clear",
                                                 next   |-> ClearNext(config),
                                                 silent |-> FALSE])
                /\ report' = "none"
  /\ lastApply' = NoApply
  /\ lastTrigger' = "none"
  /\ lastEvent' = "other"
  /\ lastRun' = NoRun
  /\ UNCHANGED <<config, clock, mergeHistory, settings, files, watcherVars,
                 coordVars, replyVars>>

\* The user edits the matugenBridge settings; the host will deliver a change
\* event to the listener if activate() has registered it.
EditSettings(s) ==
  /\ s # settings
  /\ activation # "none"
  /\ changed = {}
  /\ settings' = s
  /\ changed' = IF activation = "done"
                  THEN {k \in SettingNames : s[k] # settings[k]}
                  ELSE {}
  /\ report' = "none"
  /\ lastApply' = NoApply
  /\ lastTrigger' = "none"
  /\ lastEvent' = "other"
  /\ lastRun' = NoRun
  /\ UNCHANGED <<mergeVars, files, inflight, watcherVars, activation,
                 resolvedPath, replyVars>>

\* The onDidChangeConfiguration listener: the watcher is restarted, and the
\* palette is applied if `enabled` or `palettePath` changed and the extension
\* is enabled.
OnDidChangeConfiguration ==
  /\ changed # {}
  /\ Len(inflight) < MaxOverlap
  /\ changed' = {}
  /\ resolvedPath' = settings.palettePath
  /\ WatcherStart(settings.palettePath)
  /\ IF changed \cap {"enabled", "palettePath"} # {} /\ settings.enabled
       THEN /\ ApplyPalette(settings.palettePath, TRUE)
            /\ lastTrigger' = "configChange"
       ELSE /\ report' = "none"
            /\ lastApply' = NoApply
            /\ lastTrigger' = "none"
            /\ UNCHANGED <<clock, inflight>>
  /\ lastEvent' = "other"
  /\ lastRun' = NoRun
  /\ UNCHANGED <<config, mergeHistory, settings, files, activation, replyVars>>

CoordNext ==
  \/ Activate
  \/ CmdApplyNow
  \/ CmdClearOverrides
  \/ \E s \in SettingValues : EditSettings(s)
  \/ OnDidChangeConfiguration
  \/ \E p \in Paths : \E c \in CoordWritten[p] : FileWrite(p, c)
  \/ \E p \in Paths : FileDelete(p)
  \/ \E r \in TimerRecords : FireTimer(r)
  \/ \E ok \in BOOLEAN : UpdateSettle(ok)

CoordSpec == CoordInit /\ [][CoordNext]_vars

\* ------------------------------------------------------------------------
\* Properties of the merge engine (checked under MergeSpec)
\* ------------------------------------------------------------------------

Last == trace[Len(trace)]

\* The kinds of call a trace entry records.
IsApply(e) == e.op = "apply"

IsClear(e) == e.op = "clear"

Present(obj, k) == obj[k] # Absent

\* C1 (user-key preservation): a key other than the reserved one that was
\* present before the first call, was listed in no ManagedMeta.keys read by a
\* call and is defined by no applied palette, still holds its original value
\* after every call.
C1_UserKeyPreserved ==
  \A k \in Keys :
    (Present(config0, k) /\ k \notin touched) => config[k] = config0[k]

\* C1 witness: two calls have completed, an apply and a clear that changed
\* other keys, and a user key outside every owned list and palette survives.
C1_Witness ==
  /\ Len(trace) = 2
  /\ IsApply(trace[1]) /\ Len(trace[1].colors) > 0
  /\ IsClear(trace[2])
  /\ touched # {}
  /\ config # config0
  /\ \E k \in Keys : Present(config0, k) /\ k \notin touched /\ config[k] = config0[k]

\* C2 (ownership invariant, as claimed): the last completed call left every
\* key that the stored ManagedMeta.keys did not list, other than the reserved
\* key, exactly as it was - whatever the palette defines.
C2_OnlyOwnedKeysTouched ==
  trace # <<>> =>
    \A k \in Keys :
      k \notin Range(PreviouslyManaged(pre[MANAGED_KEY])) => config[k] = pre[k]

\* C3 (round trip, as claimed): after applyColors(X) then clearColors() from
\* a configuration S, no key of X is present and every key of S outside X is
\* present with its value.
C3_RoundTripAllKeys ==
  (Len(trace) = 2 /\ IsApply(trace[1]) /\ IsClear(trace[2])) =>
    /\ \A k \in Range(ObjectKeys(trace[1].colors)) : ~Present(config, k)
    /\ \A k \in Keys :
         (Present(config0, k) /\ k \notin Range(ObjectKeys(trace[1].colors)))
           => config[k] = config0[k]

\* C3 (round trip, amended): after applyColors(X) then clearColors() from a
\* configuration S, no key of X is present, and every key of S that is not in
\* X, not the reserved key and not listed in the ManagedMeta.keys stored in S
\* is present with its value.
C3_RoundTrip ==
  (Len(trace) = 2 /\ IsApply(trace[1]) /\ IsClear(trace[2])) =>
    /\ \A k \in Range(ObjectKeys(trace[1].colors)) : ~Present(config, k)
    /\ \A k \in Keys :
         ( /\ Present(config0, k)
           /\ k \notin Range(ObjectKeys(trace[1].colors))
           /\ k \notin Range(PreviouslyManaged(config0[MANAGED_KEY])) )
           => config[k] = config0[k]

\* C3 witness: a non-empty palette was applied over a configuration that held
\* one of its keys and an unowned key outside it, then cleared.
C3_Witness ==
  /\ Len(trace) = 2 /\ IsApply(trace[1]) /\ IsClear(trace[2])
  /\ \E k \in Range(ObjectKeys(trace[1].colors)) : Present(config0, k)
  /\ \E k \in Keys :
       /\ Present(config0, k)
       /\ k \notin Range(ObjectKeys(trace[1].colors))
       /\ k \notin Range(PreviouslyManaged(config0[MANAGED_KEY]))
       /\ config[k] = config0[k]

\* C4 (replacement): after applyColors(Y) every key of the previously stored
\* ManagedMeta.keys that Y does not define is absent and the record lists
\* exactly Y's keys; so applyColors(X) then applyColors(Y), with X and Y
\* sharing no key, leaves no key of X.
C4_Replacement ==
  /\ (trace # <<>> /\ IsApply(Last)) =>
       /\ \A k \in Range(PreviouslyManaged(pre[MANAGED_KEY])) :
            k \notin Range(ObjectKeys(Last.colors)) => ~Present(config, k)
       /\ config[MANAGED_KEY].kind = "meta"
       /\ config[MANAGED_KEY].keys = ObjectKeys(Last.colors)
  /\ ( /\ Len(trace) = 2 /\ IsApply(trace[1]) /\ IsApply(trace[2])
       /\ Range(ObjectKeys(trace[1].colors)) \cap Range(ObjectKeys(trace[2].colors)) = {} )
       => \A k \in Range(ObjectKeys(trace[1].colors)) : ~Present(config, k)

\* C4 witness: two non-empty palettes without a common key were applied one
\* after the other.
C4_Witness ==
  /\ Len(trace) = 2 /\ IsApply(trace[1]) /\ IsApply(trace[2])
  /\ Len(trace[1].colors) > 0 /\ Len(trace[2].colors) > 0
  /\ Range(ObjectKeys(trace[1].colors)) \cap Range(ObjectKeys(trace[2].colors)) = {}
  /\ \A k \in Range(ObjectKeys(trace[1].colors)) : ~Present(config, k)

\* C5 (idempotence): applying the same palette twice in a row gives the
\* configuration the first apply gave, the appliedAt timestamp aside.
C5_Idempotent ==
  ( /\ Len(trace) >= 2
    /\ IsApply(Last) /\ IsApply(trace[Len(trace) - 1])
    /\ Last.colors = trace[Len(trace) - 1].colors ) =>
      /\ \A k \in Keys : config[k] = pre[k]
      /\ config[MANAGED_KEY].kind = pre[MANAGED_KEY].kind
      /\ config[MANAGED_KEY].keys = pre[MANAGED_KEY].keys

\* C5 witness: a non-empty palette was applied twice in a row over a
\* configuration holding owned keys, and the two timestamps differ.
C5_Witness ==
  /\ Len(trace) = 2 /\ IsApply(trace[1]) /\ IsApply(trace[2])
  /\ trace[1].colors = trace[2].colors /\ Len(trace[1].colors) > 0
  /\ PreviouslyManaged(config0[MANAGED_KEY]) # <<>>
  /\ config[MANAGED_KEY].appliedAt # pre[MANAGED_KEY].appliedAt

\* C6 (clear restores the never-run state, as claimed): from a configuration
\* without a metadata record, one or more applyColors calls followed by one
\* clearColors give back the configuration of before the first apply.
C6_ClearRestoresInitial ==
  ( /\ ~Present(config0, MANAGED_KEY)
    /\ Len(trace) >= 2
    /\ IsClear(Last)
    /\ \A i \in 1..(Len(trace) - 1) : IsApply(trace[i]) ) => config = config0

\* The stored value is a ManagedMeta record.
WellFormed(meta) == meta.kind = "meta"

\* Nothing is owned: no record, or a record with an empty keys list.
NothingOwned(obj) ==
  \/ ~Present(obj, MANAGED_KEY)
  \/ WellFormed(obj[MANAGED_KEY]) /\ obj[MANAGED_KEY].keys = <<>>

\* C15 (getManagedStatus, as claimed): after completed applyColors and
\* clearColors calls, getManagedStatus raises no fault and returns the length
\* of the stored keys list as count, and count = 0 with appliedAt = null
\* whenever there is no record or the record's keys list is empty.
C15_StatusOfNothingOwned ==
  (status.called /\ trace # <<>>) =>
    /\ ~status.threw
    /\ WellFormed(config[MANAGED_KEY]) => status.count = Len(config[MANAGED_KEY].keys)
    /\ NothingOwned(config) => status.count = 0 /\ status.appliedAt = Null

\* The index of the most recent applyColors call of the trace.
LastApplyIndex ==
  CHOOSE i \in 1..Len(trace) :
    IsApply(trace[i]) /\ \A j \in (i + 1)..Len(trace) : ~IsApply(trace[j])

\* C17 (metadata consistency): once a palette was applied, a record that is
\* present is well formed, lists exactly the keys of the most recently applied
\* palette in its insertion order, and every listed key holds that palette's
\* value; after a clearColors that found a non-empty keys list no record is
\* present.
C17_MetadataConsistency ==
  /\ ((\E i \in 1..Len(trace) : IsApply(trace[i])) /\ Present(config, MANAGED_KEY)) =>
       LET X == trace[LastApplyIndex].colors
       IN  /\ WellFormed(config[MANAGED_KEY])
           /\ config[MANAGED_KEY].keys = ObjectKeys(X)
           /\ \A i \in 1..Len(X) : config[X[i][1]] = Str(X[i][2])
  /\ (trace # <<>> /\ IsClear(Last) /\ PreviouslyManaged(pre[MANAGED_KEY]) # <<>>) =>
       ~Present(config, MANAGED_KEY)

\* C17 witness: over a record listing other keys, a palette of two tokens
\* whose insertion order is not the alphabetical one was the second palette
\* applied.
C17_Witness ==
  /\ Len(trace) = 2 /\ IsApply(trace[1]) /\ IsApply(trace[2])
  /\ ObjectKeys(trace[2].colors) = <<"c.d", "a.b">>
  /\ ObjectKeys(trace[1].colors) = <<"a.b">>
  /\ config[MANAGED_KEY].keys = <<"c.d", "a.b">>

\* C18 (empty palette at the merge engine, as claimed): applyColors with an
\* empty map raises no fault; it removes every previously-owned key, leaves
\* every other color key as it was, writes a record with an empty keys list
\* and makes one update call.
C18_EmptyPaletteApplies ==
  /\ ~(outcome.op = "apply" /\ outcome.empty /\ outcome.end = "threw")
  /\ (trace # <<>> /\ IsApply(Last) /\ Last.colors = <<>>) =>
       /\ \A k \in Keys :
            IF k \in Range(PreviouslyManaged(pre[MANAGED_KEY]))
              THEN ~Present(config, k)
              ELSE config[k] = pre[k]
       /\ WellFormed(config[MANAGED_KEY])
       /\ config[MANAGED_KEY].keys = <<>>
       /\ Last.updates = 1

\* C19 (malformed metadata, as claimed): no call of applyColors, clearColors
\* or getManagedStatus raises a fault, whatever is stored under the reserved
\* key; over a stored value that is absent or malformed applyColors changes
\* no key outside its palette other than the reserved one, clearColors
\* changes nothing, and getManagedStatus returns count = 0.
C19_MalformedMeansNothingOwned ==
  /\ outcome.end # "threw"
  /\ ~status.threw
  /\ (trace # <<>> /\ ~WellFormed(pre[MANAGED_KEY])) =>
       /\ IsApply(Last) =>
            \A k \in Keys \ Range(ObjectKeys(Last.colors)) : config[k] = pre[k]
       /\ IsClear(Last) => config = pre
  /\ (status.called /\ ~WellFormed(config[MANAGED_KEY])) => status.count = 0

\* C20 (clearColors no-op): a clearColors call that finds no record, or a
\* record with an empty keys list, makes no update call (so it never ends in
\* a rejected update) and leaves the configuration, the empty-keys record
\* included, exactly as it was; a clearColors right after a clearColors
\* changes nothing.
C20_ClearNoOp ==
  /\ (trace # <<>> /\ IsClear(Last) /\ NothingOwned(pre)) =>
       config = pre /\ Last.updates = 0
  /\ (outcome.op = "clear" /\ NothingOwned(config)) => outcome.end = "ok"
  /\ (Len(trace) >= 2 /\ IsClear(Last) /\ IsClear(trace[Len(trace) - 1])) =>
       config = pre /\ Last.updates = 0

\* C20 witness: an empty palette was applied and then cleared, and the
\* empty-keys record is still there.
C20_Witness ==
  /\ Len(trace) = 2 /\ IsApply(trace[1]) /\ IsClear(trace[2])
  /\ trace[1].colors = <<>>
  /\ WellFormed(config[MANAGED_KEY])
  /\ config = pre

\* ------------------------------------------------------------------------
\* Properties of the watcher (checked under Spec)
\* ------------------------------------------------------------------------

\* The colors and the keys list of two configuration objects agree (the
\* appliedAt stamp aside).
SameColors(a, b) ==
  /\ \A k \in Keys : a[k] = b[k]
  /\ a[MANAGED_KEY].kind = b[MANAGED_KEY].kind
  /\ a[MANAGED_KEY].keys = b[MANAGED_KEY].keys

\* C7 (debounce coalescing): the create/change notifications of one burst
\* handled by the watcher's closure cause exactly one invocation of the apply
\* callback: while the burst's timer is pending there is exactly one timer and
\* no invocation yet, and once no timer is pending exactly one invocation was
\* made; the invocation comes no earlier than delayMs after the last
\* notification, and it applies the palette the file holds at that time.
C7_DebounceCoalescing ==
  /\ debouncedCallback.calls >= 1 =>
       \/ /\ CurPending(timers) = 1
          /\ debouncedCallback.timer
          /\ debouncedCallback.runs = 0
       \/ /\ CurPending(timers) = 0
          /\ ~debouncedCallback.timer
          /\ debouncedCallback.runs = 1
  /\ (lastRun.ran /\ ~lastRun.stale) => ~lastRun.early
  /\ ( /\ lastRun.ran
       /\ settings.enabled
       /\ ReadPalette(FileAt(files, currentPath)).ok
       /\ ~ApplyThrows(config) ) =>
         /\ inflight # <<>>
         /\ SameColors(inflight[Len(inflight)].next,
                       ApplyNext(config, ReadPalette(FileAt(files, currentPath)).colors, 0))

\* C7 witness: a burst of two or more notifications, with a delay above zero,
\* has just ended in its one invocation, which issued an update.
C7_Witness ==
  /\ lastRun.ran /\ ~lastRun.stale
  /\ debouncedCallback.calls >= 2
  /\ debouncedCallback.runs = 1
  /\ debouncedCallback.delay > 0
  /\ CurPending(timers) = 0
  /\ inflight # <<>>

C9_RestartCancelsPending == ~(lastRun.ran /\ lastRun.stale)

LiveWatchers == {w \in WatcherIds : live[w] # NoPath}

\* C10 (single subscription): at most one file-system watcher is alive in the
\* host, it is the watcher's fsWatcher on its current path, and every
\* registered listener is one of its three; none is left once stopped.
C10_SingleSubscription ==
  /\ Cardinality(LiveWatchers) <= 1
  /\ \A w \in LiveWatchers : w = fsWatcher /\ live[w] = currentPath
  /\ \A l \in listeners : l[1] = fsWatcher
  /\ fsWatcher # 0 => /\ LiveWatchers = {fsWatcher}
                      /\ listeners = {<<fsWatcher, k>> : k \in EventKinds}
  /\ fsWatcher = 0 => listeners = {} /\ LiveWatchers = {}

\* C10 witness: the watcher was restarted on another path while a timer of
\* the earlier subscription was pending, and a file of the earlier path exists.
C10_Witness ==
  /\ fsWatcher # 0
  /\ currentPath = "p2"
  /\ StalePending(timers) > 0
  /\ files["p1"] # MissingFile

\* ------------------------------------------------------------------------
\* Properties of the palette reader (checked under ReaderSpec)
\* ------------------------------------------------------------------------

\* The keys and the string values of the explored entries that the claim
\* accepts: no leading "_" and a "."; "#" and 3, 4, 6 or 8 hex digits.
AcceptedKeys == {"a.b", "c.d"}

AcceptedHex == {"#000", "#FFFF", "#12ab56", "#12AB56ff"}

Accepted(e) ==
  e[1] \in AcceptedKeys /\ e[2].type = "string" /\ e[2].str \in AcceptedHex

\* The entries of es that the claim accepts, as a ColorMap in file order.
AcceptedColors(es) ==
  LET kept == SelectSeq(es, Accepted)
  IN  [i \in 1..Len(kept) |-> <<kept[i][1], kept[i][2].str>>]

\* C13 (readPalette result): a missing file, an unreadable file, malformed
\* JSON and a root that is no plain object fail with their own error, in that
\* order of checks; a JSON object succeeds exactly when it has an accepted
\* entry, the returned map is then exactly the accepted entries in file order,
\* and an object without an accepted entry fails with the empty-palette error.
C13_ReadPaletteResult ==
  result # NoResult =>
    LET content == files["p1"]
        colors  == AcceptedColors(content.entries)
    IN  CASE content.kind = "missing"    -> ~result.ok /\ result.error = "notFound"
          [] content.kind = "unreadable" -> ~result.ok /\ result.error = "readError"
          [] content.kind = "malformed"  -> ~result.ok /\ result.error = "parseError"
          [] content.kind = "nonObject"  -> ~result.ok /\ result.error = "shapeError"
          [] OTHER ->
               /\ result.ok <=> colors # <<>>
               /\ result.ok => result.colors = colors
               /\ ~result.ok => result.error = "emptyPalette" /\ result.colors = <<>>

\* C13 witness: a file with an accepted entry and an entry that fails a
\* per-key check was read, and the read succeeded with the accepted entry
\* alone.
C13_Witness ==
  /\ result.ok
  /\ Len(files["p1"].entries) = 2
  /\ Len(result.colors) = 1
  /\ \E i \in 1..2 : files["p1"].entries[i][1] = "_x.y"

\* ------------------------------------------------------------------------
\* Properties of the coordinator (checked under CoordSpec)
\* ------------------------------------------------------------------------

\* The step settles the config.update call at the head of the queue.
Settles == inflight # <<>> /\ inflight' = Tail(inflight)

\* The step issues a config.update call.
Issues == Len(inflight') > Len(inflight)

Subscribed ==
  /\ fsWatcher # 0
  /\ live[fsWatcher] = currentPath
  /\ listeners = {<<fsWatcher, k>> : k \in EventKinds}

\* C11 (reader failure short-circuits): an applyPalette call made while
\* enabled, on a file for which readPalette returns a failure, ends at the
\* read: it issues no update and leaves the shared configuration, the record
\* included, as it was.
C11_ReaderFailureShortCircuits ==
  [][ ( /\ lastApply'.ran
        /\ settings'.enabled
        /\ ~ReadPalette(FileAt(files', lastApply'.path)).ok ) =>
          /\ lastApply'.end = "readFailed"
          /\ lastApply'.read = ReadPalette(FileAt(files', lastApply'.path)).error
          /\ UNCHANGED <<config, inflight, clock>>
    ]_vars

\* C11 witness: with colors of palette A applied, the force-apply command
\* found a well-formed file without a valid token and only warned.
C11_Witness ==
  /\ lastApply.end = "readFailed"
  /\ lastApply.read = "emptyPalette"
  /\ lastTrigger = "applyNow"
  /\ report = "warning"
  /\ config["a.b"] = Str("#000")
  /\ config[MANAGED_KEY].keys = <<"a.b">>

\* C12 (no fault escapes): every applyPalette call ends disabled, at the
\* read, in a caught fault or with an update issued; a fault raised inside
\* applyColors is reported as an error and changes nothing; an update issued
\* by an apply settles either by storing its object or, the write having
\* failed, with an error report and the configuration unchanged; no apply
\* ends as a rejected call.
C12_NoFaultEscapes ==
  [][ /\ lastApply'.ran =>
           /\ lastApply'.end \in {"disabled", "readFailed", "threw", "issued"}
           /\ report' # "rejected"
           /\ (settings'.enabled /\ lastApply'.read = "ok" /\ ApplyThrows(config))
                 => lastApply'.end = "threw"
           /\ lastApply'.end = "threw" =>
                 report' = "error" /\ UNCHANGED <<config, inflight>>
      /\ (Settles /\ Head(inflight).op = "apply") =>
           \/ config' = Head(inflight).next /\ report' \in {"none", "status"}
           \/ config' = config /\ report' = "error"
    ]_vars

\* C12 witness: the write of an apply has just failed and was reported, with
\* the configuration still the one of before the apply.
C12_Witness ==
  /\ report = "error"
  /\ ~lastApply.ran
  /\ config = config0
  /\ WellFormed(config[MANAGED_KEY])
  /\ activation = "done"

\* C14 (disabled means no-op): while `enabled` is false, an applyPalette call
\* returns at the enabled test without reading the file and without a report,
\* no apply issues an update, the shared configuration changes only when an
\* update issued earlier settles, and the activated watcher stays subscribed.
C14_DisabledMeansNoOp ==
  [][ ~settings'.enabled =>
        /\ lastApply'.ran =>
             /\ lastApply'.end = "disabled"
             /\ lastApply'.read = "none"
             /\ report' = "none"
             /\ UNCHANGED <<config, inflight, clock>>
        /\ Issues => inflight'[Len(inflight')].op = "clear"
        /\ config' # config => Settles
        /\ activation' # "none" => Subscribed'
    ]_vars

\* C14 witness: with colors of palette A applied and the extension disabled,
\* a watcher notification called applyPalette, which returned at once.
C14_Witness ==
  /\ ~settings.enabled
  /\ lastTrigger = "watcher"
  /\ lastApply.end = "disabled"
  /\ config["a.b"] = Str("#000")
  /\ Subscribed

\* C16 (no overlapping applies, as claimed): while the config.update call of
\* an apply is pending, no other apply or clear has read the shared
\* configuration and issued its own update: a pending apply is the only
\* pending call.
C16_NoOverlappingApplies ==
  (\E i \in 1..Len(inflight) : inflight[i].op = "apply") => Len(inflight) = 1

\* ------------------------------------------------------------------------
\* Further properties of the watcher (checked under Spec)
\* ------------------------------------------------------------------------

\* C21 (stopped means silent, as claimed): no invocation of the apply
\* callback is made while the watcher is stopped, that is after stop() or
\* dispose() and before the next start().
C21_StoppedMeansSilent == ~(lastRun.ran /\ lastRun.stopped)

\* ------------------------------------------------------------------------
\* The watcher under a fair host: LiveSpec
\* ------------------------------------------------------------------------

\* What is written to each path under LiveSpec: one valid palette to "p1",
\* the one path the watcher is started on.
LiveWritten == [p \in Paths |-> IF p = "p1" THEN {PaletteA} ELSE {}]

\* The host delivers a create or change notification to handleEvent.
Notify ==
  \E p \in Paths : \E c \in LiveWritten[p] :
    /\ FileWrite(p, c)
    /\ Matching(live, listeners, p,
                IF files[p] = MissingFile THEN "create" ELSE "change") # {}

LiveNext ==
  \/ Start("p1")
  \/ Stop
  \/ Dispose
  \/ \E p \in Paths : \E c \in LiveWritten[p] : FileWrite(p, c)
  \/ FileDelete("p1")
  \/ Tick
  \/ \E r \in TimerRecords : FireTimer(r)
  \/ \E ok \in BOOLEAN : UpdateSettle(ok)
  \/ \E s \in [enabled : {TRUE}, debounceMs : DebounceValues, palettePath : {"p1"}] :
       SetConfiguration(s)

\* The host's event loop: time passes, a due timer's callback is run, and a
\* pending config.update call is answered.
HostFairness ==
  /\ WF_vars(Tick)
  /\ \A r \in TimerRecords : WF_vars(FireTimer(r))
  /\ WF_vars(\E ok \in BOOLEAN : UpdateSettle(ok))

LiveSpec == Init /\ [][LiveNext]_vars /\ HostFairness

\* The watcher is watching and a timer of its closure is pending.
ApplyScheduled == fsWatcher # 0 /\ CurPending(timers) > 0

\* The watcher has been stopped, or start() has replaced its closure.
StoppedOrRestarted == fsWatcher = 0 \/ debouncedCallback.calls = 0

\* C22 (eventual apply): if notifications stop arriving from some point on,
\* an apply scheduled by a notification of the watching watcher is followed by
\* an invocation of the apply callback from the watcher's closure, unless the
\* watcher is stopped or restarted first; and the step that delivers the
\* notification runs no callback itself, whatever the delay: it issues no
\* update and leaves exactly one timer of the closure pending.
C22_EventualApply ==
  /\ (<>[][~Notify]_vars) =>
       (ApplyScheduled ~> ((lastRun.ran /\ ~lastRun.stale) \/ StoppedOrRestarted))
  /\ [][Notify => /\ ~lastRun'.ran
                  /\ ~lastApply'.ran
                  /\ CurPending(timers') = 1
                  /\ UNCHANGED <<config, inflight>>]_vars

\* C22 witness: a notification was handled with delayMs = 0 and its timer,
\* already due, is pending with no invocation made yet.
C22_Witness ==
  /\ fsWatcher # 0
  /\ debouncedCallback.delay = 0
  /\ debouncedCallback.calls >= 1
  /\ debouncedCallback.runs = 0
  /\ CopiesIn([cur |-> TRUE, tracked |-> TRUE, remaining |-> 0], timers) = 1
  /\ ~lastRun.ran

\* ------------------------------------------------------------------------
\* The configuration listener over every matugenBridge setting: ConfigSpec
\* ------------------------------------------------------------------------

\* The settings explored: the three settings the code reads, each with two
\* values.
ConfigSettingValues ==
  [enabled : BOOLEAN, debounceMs : DebounceValues, palettePath : Paths]

\* The state before activate() is called.
ConfigInit ==
  /\ config \in SpecInitConfigs
  /\ clock = MaxClock
  /\ outcome = NoOutcome
  /\ config0 = config
  /\ pre = config
  /\ trace = <<>>
  /\ touched = {}
  /\ settings \in {v \in ConfigSettingValues : v.palettePath = "p1"}
  /\ files = [p \in Paths |-> MissingFile]
  /\ inflight = <<>>
  /\ report = "none"
  /\ Constructed
  /\ activation = "none"
  /\ resolvedPath = NoPath
  /\ changed = {}
  /\ lastApply = NoApply
  /\ lastTrigger = "none"
  /\ result = NoResult
  /\ status = NoStatus

ConfigNext ==
  \/ Activate
  \/ \E s \in ConfigSettingValues : EditSettings(s)
  \/ OnDidChangeConfiguration
  \/ \E p \in Paths : \E c \in LiveWritten[p] : FileWrite(p, c)
  \/ FileDelete("p1")
  \/ Tick
  \/ \E r \in TimerRecords : FireTimer(r)
  \/ \E ok \in BOOLEAN : UpdateSettle(ok)

ConfigSpec == ConfigInit /\ [][ConfigNext]_vars

\* The step runs the onDidChangeConfiguration listener.
ListenerRuns == changed # {} /\ changed' = {}

\* C23 (configuration change handling, as claimed): when the listener runs
\* for a change of a matugenBridge setting, the watcher is afterwards
\* subscribed on the newly resolved palette path with a closure built for the
\* configured delay, and if palettePath or debounceMs changed (the extension
\* being enabled) applyPalette is called on that path in the same step.
C23_ConfigChangeHandling ==
  [][ ListenerRuns =>
        /\ Subscribed'
        /\ currentPath' = settings.palettePath
        /\ resolvedPath' = settings.palettePath
        /\ debouncedCallback' = NewDebounced(settings.debounceMs)
        /\ (settings.enabled /\ changed \cap {"palettePath", "debounceMs"} # {}) =>
             /\ lastApply'.ran
             /\ lastApply'.path = settings.palettePath
    ]_vars

\* ------------------------------------------------------------------------
\* Further properties of the coordinator (checked under CoordSpec)
\* ------------------------------------------------------------------------

\* C24 (every failure is reported, as claimed): an applyPalette call made
\* while enabled that ends at a failed read shows a warning, one that ends in
\* a fault of applyColors shows an error, and an update of an apply that
\* settles without storing its object shows an error, whatever the trigger.
C24_EveryFailureReported ==
  [][ /\ (lastApply'.ran /\ settings'.enabled) =>
           /\ lastApply'.end = "readFailed" => report' = "warning"
           /\ lastApply'.end = "threw" => report' = "error"
      /\ (Settles /\ Head(inflight).op = "apply" /\ config' # Head(inflight).next) =>
           report' = "error"
    ]_vars

\* ------------------------------------------------------------------------
\* The read-then-apply pipeline over palette files that name the reserved
\* key: PipeSpec
\* ------------------------------------------------------------------------

PipeKeys == {"a.b", "_x.y", MANAGED_KEY}

PipeValues == {JStr("#000"), JObject}

\* The palette files explored: JSON objects of up to MaxEntries entries with
\* distinct keys, the reserved key among them.
PipeContents ==
  {JsonObject(es) :
     es \in {x \in UNION {[1..n -> PipeKeys \X PipeValues] : n \in 0..MaxEntries} :
               \A i, j \in 1..Len(x) : i # j => x[i][1] # x[j][1]}}

\* The extension is active and enabled, the palette file does not exist yet.
PipeInit ==
  /\ config \in SpecInitConfigs
  /\ clock = MaxClock
  /\ outcome = NoOutcome
  /\ config0 = config
  /\ pre = config
  /\ trace = <<>>
  /\ touched = {}
  /\ settings = [enabled |-> TRUE, debounceMs |-> 0, palettePath |-> "p1"]
  /\ files = [p \in Paths |-> MissingFile]
  /\ inflight = <<>>
  /\ report = "none"
  /\ Constructed
  /\ Idle

PipeNext ==
  \/ \E c \in PipeContents : FileWrite("p1", c)
  \/ CmdApplyNow
  \/ CmdClearOverrides
  \/ \E ok \in BOOLEAN : UpdateSettle(ok)

PipeSpec == PipeInit /\ [][PipeNext]_vars

\* The key contains "." and does not start with "_".
TokenShaped(key) ==
  /\ Chars(key) # <<>>
  /\ Chars(key)[1] # "_"
  /\ "." \in Range(Chars(key))

\* The value stored under the reserved key of obj is a ManagedMeta record
\* that lists token-shaped keys only, each holding a color string in obj.
RecordOfApply(obj) ==
  /\ obj[MANAGED_KEY].kind = "meta"
  /\ \A k \in Range(obj[MANAGED_KEY].keys) :
       /\ k # MANAGED_KEY
       /\ TokenShaped(k)
       /\ obj[k].kind = "string"

\* C25 (the palette cannot forge ownership): every key of the ColorMap that
\* readPalette returns for the palette file is token-shaped, so never the
\* reserved key; every object an apply hands to config.update holds under
\* the reserved key the record applyColors built, listing exactly the keys
\* readPalette returned at that call; and the stored value under the reserved
\* key is never a color string: it is such a record, or absent after a clear.
C25_NoForgedOwnership ==
  /\ LET res == ReadPalette(FileAt(files, "p1"))
     IN  res.ok => \A i \in 1..Len(res.colors) :
                     TokenShaped(res.colors[i][1]) /\ res.colors[i][1] # MANAGED_KEY
  /\ \A i \in 1..Len(inflight) :
       inflight[i].op = "apply" => RecordOfApply(inflight[i].next)
  /\ (lastApply.ran /\ lastApply.end = "issued") =>
       inflight[Len(inflight)].next[MANAGED_KEY] =
         Meta(ObjectKeys(ReadPalette(FileAt(files, "p1")).colors), MaxClock)
  /\ config[MANAGED_KEY] # Absent => RecordOfApply(config)

\* C25 witness: the palette file holds a color string under the reserved key
\* next to a valid token, and the force-apply command has just issued an
\* update whose record lists the valid token alone.
C25_Witness ==
  /\ lastApply.ran /\ lastApply.end = "issued"
  /\ \E i \in 1..Len(files["p1"].entries) :
       files["p1"].entries[i] = <<MANAGED_KEY, JStr("#000")>>
  /\ inflight[Len(inflight)].next[MANAGED_KEY].keys = <<"a.b">>
  /\ inflight[Len(inflight)].next["a.b"] = Str("#000")

====
